---- MODULE Spec2Model ----
(***************************************************************************)
(* ipc::detail::waiter_helper (src/src/libipc/waiter_helper.h): a          *)
(* condition variable built from a shared lock, a counting semaphore and   *)
(* a handshake semaphore.  Waiter threads call wait_if; one signalling     *)
(* thread calls notify, broadcast and quit_waiting.  Every atomic          *)
(* operation of the source is one step of the model; a statement on        *)
(* counter_ (protected by the shared lock) is taken together with the      *)
(* atomic operation next to it, a lock acquisition together with the       *)
(* step after it and a lock release together with the step before it.      *)
(* sema_post and handshake_post succeed.                                   *)
(***************************************************************************)
EXTENDS Integers, FiniteSets, Sequences, TLC

\* ---------------------------------------------------------------- bounds
NumWaiters == 2
MaxWaitCalls == 2
MaxSigCalls == 1
MaxClose == 1

Waiters == 1..NumWaiters
Sig == NumWaiters + 1
Free == 0

VARIABLES
    waiting,      \* wait_counter::waiting_
    counter,      \* wait_counter::counter_
    is_waiting,   \* wait_flags::is_waiting_
    is_closed,    \* wait_flags::is_closed_
    need_dest,    \* wait_flags::need_dest_
    sema,         \* tokens of the primary semaphore
    hs,           \* acknowledgments of the handshake semaphore
    lock,         \* holder of ctrl.get_lock(), or Free
    mtx,          \* holder of the caller's mtx, or Free
    pc,           \* pc[w]: position of waiter w inside wait_if
    pred,         \* pred[w]: what the predicate of w's call returns
    tm,           \* tm[w]: "inf" or "fin", the timeout of w's call
    ret,          \* ret[w]: the local ret / the returned value
    cw,           \* cw[w]: curr_wait of the cleanup guard
    isw,          \* isw[w]: the local is_waiting read at line 53
    spc,          \* position of the signalling thread
    sop,          \* the operation it runs
    sret,         \* its local ret / the returned value
    smtx,         \* whether it calls while holding the caller's mtx
    wcalls,       \* wait_if calls that found the condition open, so far
    scalls,       \* quit_waiting calls, and notify and broadcast calls that
                  \* found waiting_ # 0, so far
    closes,       \* times the condition was closed again
    h             \* history of the calls in progress (see HInit)

vars == << waiting, counter, is_waiting, is_closed, need_dest, sema, hs, lock,
           mtx, pc, pred, tm, ret, cw, isw, spc, sop, sret, smtx, wcalls,
           scalls, closes, h >>

shared == << waiting, counter, is_waiting, is_closed, need_dest, sema, hs, lock, mtx >>
wlocals == << pc, pred, tm, ret, cw, isw >>
slocals == << spc, sop, sret, smtx >>
budgets == << wcalls, scalls, closes >>

\* ---------------------------------------------------------------- history
\* What the calls in progress have seen and done; read by the properties only.
Ops == {"notify", "broadcast", "quit_waiting"}

HInit ==
    [ open    |-> [w \in Waiters |-> FALSE], \* w's call found the condition open
      tmo     |-> [w \in Waiters |-> FALSE], \* w's own sema_wait timed out
      woke    |-> [w \in Waiters |-> FALSE], \* w's sema_wait took a token
      quit    |-> FALSE,                     \* quit_waiting has been called
      posters |-> {},                        \* the operations that have posted tokens
      blk     |-> {},                        \* waiters blocked when the signal call began
                                             \* and still in that sema_wait
      all     |-> FALSE,                     \* when it began AllBlocked held
      rel     |-> FALSE,                     \* when it began AllReleased held
      one     |-> 0,                         \* the waiter that was alone inside wait_if, and
                                             \* blocked, when quit_waiting was called, until
                                             \* its call is over
      how     |-> "none",                    \* "fast", "zero" or "post": its path
      taken   |-> 0,                         \* tokens taken since it began
      none    |-> FALSE,                     \* when it began waiting_ = 0 and is_waiting_
                                             \* was false, and no waiter registered since
      acks    |-> [w \in Waiters |-> 0],     \* acknowledgments w's call has posted
      dec     |-> [w \in Waiters |-> FALSE] ]\* w's cleanup has decremented waiting_

InCall(w) == pc[w] \notin {"idle", "done"}

\* A waiter inside a sema_wait that cannot return yet: no token is there.
Blocked(w) == pc[w] \in {"w_sem", "w_semd"} /\ sema = 0

\* ---------------------------------------------------------------- Init
TypeOK ==
    /\ waiting \in Int
    /\ counter \in Int
    /\ is_waiting \in BOOLEAN /\ is_closed \in BOOLEAN /\ need_dest \in BOOLEAN
    /\ sema \in Nat
    /\ hs \in Nat
    /\ lock \in {Free} \cup Waiters \cup {Sig}
    /\ mtx \in {Free} \cup Waiters \cup {Sig}
    /\ tm \in [Waiters -> {"inf", "fin"}]
    /\ pred \in [Waiters -> BOOLEAN]
    /\ ret \in [Waiters -> BOOLEAN]
    /\ sop \in Ops \cup {"none"}

\* waiter_helper's members after construction (lines 16-17, 21-23): nobody
\* waits, the condition is closed, both semaphores are empty, no lock is held.
Init ==
    /\ waiting = 0
    /\ counter = 0
    /\ is_waiting = FALSE
    /\ is_closed = TRUE
    /\ need_dest = FALSE
    /\ sema = 0
    /\ hs = 0
    /\ lock = Free
    /\ mtx = Free
    /\ pc = [w \in Waiters |-> "idle"]
    /\ pred = [w \in Waiters |-> TRUE]
    /\ tm = [w \in Waiters |-> "inf"]
    /\ ret = [w \in Waiters |-> FALSE]
    /\ cw = [w \in Waiters |-> 0]
    /\ isw = [w \in Waiters |-> FALSE]
    /\ spc = "idle"
    /\ sop = "none"
    /\ sret = TRUE
    /\ smtx = FALSE
    /\ wcalls = 0
    /\ scalls = 0
    /\ closes = 0
    /\ h = HInit

\* ---------------------------------------------------------------- channel
\* The surrounding channel opens the condition when it is initialized and
\* closes it on shutdown (spec.md, 3. DATA MODEL, is_closed); closes counts the
\* shutdowns, and the channel is opened MaxClose times.
Open ==
    /\ is_closed
    /\ closes < MaxClose
    /\ is_closed' = FALSE
    /\ UNCHANGED << waiting, counter, is_waiting, need_dest, sema, hs, lock, mtx >>
    /\ UNCHANGED << wlocals, slocals, budgets, h >>

Close ==
    /\ ~is_closed
    /\ closes < MaxClose
    /\ is_closed' = TRUE
    /\ closes' = closes + 1
    /\ UNCHANGED << waiting, counter, is_waiting, need_dest, sema, hs, lock, mtx >>
    /\ UNCHANGED << wlocals, slocals, wcalls, scalls, h >>

\* ---------------------------------------------------------------- wait_if
\* A missing test of is_closed_.
FindsClosedNever(c) == FALSE

\* line 29: the test of is_closed_.load()
FindsClosed(c) == c

\* The caller takes mtx and calls wait_if(ctrl, mtx, pred, tm) with a
\* predicate result from P and a timeout from T; the waiters are numbered in the
\* order of their first calls.
\* lines 29-31: if (is_closed_) return false;
WaitCallWith(w, P, T) ==
    /\ pc[w] = "idle"
    /\ is_closed \/ wcalls < MaxWaitCalls
    /\ w <= wcalls + 1
    /\ mtx = Free
    /\ mtx' = w
    /\ \E p \in P, t \in T :
          /\ pred' = [pred EXCEPT ![w] = p]
          /\ tm' = [tm EXCEPT ![w] = t]
    /\ ret' = [ret EXCEPT ![w] = FALSE]
    /\ wcalls' = IF is_closed THEN wcalls ELSE wcalls + 1
    /\ pc' = [pc EXCEPT ![w] = IF FindsClosed(is_closed) THEN "done" ELSE "w_inc"]
    /\ h' = [h EXCEPT !.open[w] = ~is_closed]
    /\ UNCHANGED << waiting, counter, is_waiting, is_closed, need_dest, sema, hs, lock >>
    /\ UNCHANGED << cw, isw, slocals, scalls, closes >>

WaitCall(w) == WaitCallWith(w, BOOLEAN, {"inf", "fin"})

\* line 34: waiting_.fetch_add(1)
WaitRegister(w) ==
    /\ pc[w] = "w_inc"
    /\ waiting' = waiting + 1
    /\ pc' = [pc EXCEPT ![w] = "w_setw"]
    /\ h' = [h EXCEPT !.none = FALSE]
    /\ UNCHANGED << counter, is_waiting, is_closed, need_dest, sema, hs, lock, mtx >>
    /\ UNCHANGED << pred, tm, ret, cw, isw, slocals, budgets >>

\* line 35: is_waiting_.store(true)
WaitSetWaiting(w) ==
    /\ pc[w] = "w_setw"
    /\ is_waiting' = TRUE
    /\ pc' = [pc EXCEPT ![w] = "w_lock"]
    /\ h' = [h EXCEPT !.none = FALSE]
    /\ UNCHANGED << waiting, counter, is_closed, need_dest, sema, hs, lock, mtx >>
    /\ UNCHANGED << pred, tm, ret, cw, isw, slocals, budgets >>

\* A get_lock() that takes nothing.
GetLockNot(t) == Free

\* lines 45, 88, 105, 131: the holder of the shared lock once t's
\* ctrl.get_lock() has returned
GetLock(t) == t

\* line 45: auto guard = ctrl.get_lock();
WaitLock(w) ==
    /\ pc[w] = "w_lock"
    /\ lock = Free
    /\ lock' = GetLock(w)
    /\ pc' = [pc EXCEPT ![w] = "w_pred"]
    /\ UNCHANGED << waiting, counter, is_waiting, is_closed, need_dest, sema, hs, mtx >>
    /\ UNCHANGED << pred, tm, ret, cw, isw, slocals, budgets, h >>

\* A snapshot that leaves the caller itself out.
SnapshotWithoutSelf(n) == n - 1

\* line 47: the value stored in counter_
Snapshot(n) == n

\* lines 46-49: if (!pred()) return true; counter_ = waiting_.load(); the
\* scoped lock is released; mtx.unlock().  On the return the cleanup guard
\* runs next and mtx stays with the caller.
WaitPred(w) ==
    /\ pc[w] = "w_pred"
    /\ lock' = Free
    /\ IF pred[w]
         THEN /\ counter' = Snapshot(waiting)
              /\ mtx' = Free
              /\ pc' = [pc EXCEPT ![w] = "w_ldw"]
              /\ UNCHANGED ret
         ELSE /\ ret' = [ret EXCEPT ![w] = TRUE]
              /\ pc' = [pc EXCEPT ![w] = "c_load"]
              /\ UNCHANGED << counter, mtx >>
    /\ UNCHANGED << waiting, is_waiting, is_closed, need_dest, sema, hs >>
    /\ UNCHANGED << pred, tm, cw, isw, slocals, budgets, h >>

\* line 53: bool is_waiting = is_waiting_.load();
WaitLoadWaiting(w) ==
    /\ pc[w] = "w_ldw"
    /\ isw' = [isw EXCEPT ![w] = is_waiting]
    /\ pc' = [pc EXCEPT ![w] = "w_ldc"]
    /\ UNCHANGED << shared, pred, tm, ret, cw, slocals, budgets, h >>

\* lines 54-55: bool is_closed = is_closed_.load(); if (!is_waiting || is_closed)
WaitLoadClosed(w) ==
    /\ pc[w] = "w_ldc"
    /\ IF ~isw[w] \/ is_closed
         THEN pc' = [pc EXCEPT ![w] = "w_ndclr"]
         ELSE pc' = [pc EXCEPT ![w] = "w_xchg"]
    /\ isw' = [isw EXCEPT ![w] = FALSE]
    /\ UNCHANGED << shared, pred, tm, ret, cw, slocals, budgets, h >>

\* lines 56-58: need_dest_.store(false); ret = false; break;
WaitNotWaiting(w) ==
    /\ pc[w] = "w_ndclr"
    /\ need_dest' = FALSE
    /\ ret' = [ret EXCEPT ![w] = FALSE]
    /\ pc' = [pc EXCEPT ![w] = "c_load"]
    /\ UNCHANGED << waiting, counter, is_waiting, is_closed, sema, hs, lock, mtx >>
    /\ UNCHANGED << pred, tm, cw, isw, slocals, budgets, h >>

\* line 60: else if (need_dest_.exchange(false)) { ret = false; ...
WaitExchange(w) ==
    /\ pc[w] = "w_xchg"
    /\ need_dest' = FALSE
    /\ IF need_dest
         THEN /\ ret' = [ret EXCEPT ![w] = FALSE]
              /\ pc' = [pc EXCEPT ![w] = "w_semd"]
         ELSE /\ pc' = [pc EXCEPT ![w] = "w_sem"]
              /\ UNCHANGED ret
    /\ UNCHANGED << waiting, counter, is_waiting, is_closed, sema, hs, lock, mtx >>
    /\ UNCHANGED << pred, tm, cw, isw, slocals, budgets, h >>

\* sema_wait(t) returning true: one token is taken.
TakeToken(w) ==
    /\ sema > 0
    /\ sema' = sema - 1
    /\ h' = [h EXCEPT !.woke[w] = TRUE, !.blk = h.blk \ {w},
                      !.taken = IF spc = "idle" THEN 0 ELSE h.taken + 1]

\* lines 62-63: ctrl.sema_wait(default_timeout); break;  (the result is dropped)
WaitSemaDest(w) ==
    /\ pc[w] = "w_semd"
    /\ \/ TakeToken(w)
       \/ /\ sema = 0
          /\ h' = [h EXCEPT !.tmo[w] = TRUE, !.blk = h.blk \ {w}]
          /\ UNCHANGED sema
    /\ pc' = [pc EXCEPT ![w] = "c_load"]
    /\ UNCHANGED << waiting, counter, is_waiting, is_closed, need_dest, hs, lock, mtx >>
    /\ UNCHANGED << pred, tm, ret, cw, isw, slocals, budgets >>

\* line 66: ret = ctrl.sema_wait(tm);  a token, or the timeout of a bounded tm
WaitSema(w) ==
    /\ pc[w] = "w_sem"
    /\ \/ /\ TakeToken(w)
          /\ ret' = [ret EXCEPT ![w] = TRUE]
       \/ /\ tm[w] = "fin"
          /\ sema = 0
          /\ ret' = [ret EXCEPT ![w] = FALSE]
          /\ h' = [h EXCEPT !.tmo[w] = TRUE, !.blk = h.blk \ {w}]
          /\ UNCHANGED sema
    /\ pc' = [pc EXCEPT ![w] = "w_ndld"]
    /\ UNCHANGED << waiting, counter, is_waiting, is_closed, need_dest, hs, lock, mtx >>
    /\ UNCHANGED << pred, tm, cw, isw, slocals, budgets >>

\* line 68: } while (need_dest_.load());
WaitLoopTest(w) ==
    /\ pc[w] = "w_ndld"
    /\ IF need_dest
         THEN pc' = [pc EXCEPT ![w] = "w_ldw"]
         ELSE pc' = [pc EXCEPT ![w] = "c_load"]
    /\ UNCHANGED << shared, pred, tm, ret, cw, isw, slocals, budgets, h >>

\* A cleanup loop that does not test curr_wait.
MayDecrementAlways(n) == TRUE

\* line 37: the loop condition curr_wait > 0
MayDecrement(n) == n > 0

\* line 37: curr_wait = waiting_.load(); the loop runs while curr_wait > 0
CleanupLoad(w) ==
    /\ pc[w] = "c_load"
    /\ cw' = [cw EXCEPT ![w] = waiting]
    /\ IF MayDecrement(waiting)
         THEN pc' = [pc EXCEPT ![w] = "c_cas"]
         ELSE pc' = [pc EXCEPT ![w] = "c_clr"]
    /\ UNCHANGED << shared, pred, tm, ret, isw, slocals, budgets, h >>

\* A cleanup that stores curr_wait back.
DecrementedNot(n) == n

\* line 38: the value compare_exchange_weak stores on success
Decremented(n) == n - 1

\* lines 37-40: compare_exchange_weak(curr_wait, curr_wait - 1): on success the
\* loop ends; on failure curr_wait is reloaded and tested again.
CleanupCas(w) ==
    /\ pc[w] = "c_cas"
    /\ IF waiting = cw[w]
         THEN /\ waiting' = Decremented(cw[w])
              /\ pc' = [pc EXCEPT ![w] = "c_clr"]
              /\ h' = [h EXCEPT !.dec[w] = TRUE]
              /\ UNCHANGED cw
         ELSE /\ cw' = [cw EXCEPT ![w] = waiting]
              /\ pc' = [pc EXCEPT ![w] = IF MayDecrement(waiting) THEN "c_cas" ELSE "c_clr"]
              /\ UNCHANGED << waiting, h >>
    /\ UNCHANGED << counter, is_waiting, is_closed, need_dest, sema, hs, lock, mtx >>
    /\ UNCHANGED << pred, tm, ret, isw, slocals, budgets >>

\* A wait_if that goes for mtx right after the cleanup.
AfterCleanupLockFirst(p) == IF p THEN "w_mlock" ELSE "done"

\* What follows the cleanup guard: line 70 after finally.do_exit() (line 69),
\* the caller after the return of line 46.
AfterCleanup(p) == IF p THEN "w_hs" ELSE "done"

\* line 42: is_waiting_.store(false); then, after the predicate-false return,
\* wait_if is over; otherwise line 70 follows.
CleanupClear(w) ==
    /\ pc[w] = "c_clr"
    /\ is_waiting' = FALSE
    /\ pc' = [pc EXCEPT ![w] = AfterCleanup(pred[w])]
    /\ cw' = [cw EXCEPT ![w] = 0]
    /\ UNCHANGED << waiting, counter, is_closed, need_dest, sema, hs, lock, mtx >>
    /\ UNCHANGED << pred, tm, ret, isw, slocals, budgets, h >>

\* A handshake_post that posts nothing.
HandshakePostNone(n) == n

\* line 70: the handshake semaphore after handshake_post(1)
HandshakePost(n) == n + 1

\* line 70: ret = ctrl.handshake_post(1) && ret;
WaitHandshake(w) ==
    /\ pc[w] = "w_hs"
    /\ hs' = HandshakePost(hs)
    /\ pc' = [pc EXCEPT ![w] = "w_mlock"]
    /\ h' = [h EXCEPT !.acks[w] = h.acks[w] + (hs' - hs)]
    /\ UNCHANGED << waiting, counter, is_waiting, is_closed, need_dest, sema, lock, mtx >>
    /\ UNCHANGED << pred, tm, ret, cw, isw, slocals, budgets >>

\* A mtx.lock() that leaves mtx alone.
MtxLockNot(w) == Free

\* line 72: the holder of mtx once w's mtx.lock() has returned
MtxLock(w) == w

\* lines 72-73: mtx.lock(); return ret;
WaitMtxLock(w) ==
    /\ pc[w] = "w_mlock"
    /\ mtx = Free
    /\ mtx' = MtxLock(w)
    /\ pc' = [pc EXCEPT ![w] = "done"]
    /\ UNCHANGED << waiting, counter, is_waiting, is_closed, need_dest, sema, hs, lock >>
    /\ UNCHANGED << pred, tm, ret, cw, isw, slocals, budgets, h >>

\* The caller has the result and leaves its critical section.
WaitReturn(w) ==
    /\ pc[w] = "done"
    /\ mtx = w
    /\ mtx' = Free
    /\ pc' = [pc EXCEPT ![w] = "idle"]
    /\ pred' = [pred EXCEPT ![w] = TRUE]
    /\ tm' = [tm EXCEPT ![w] = "inf"]
    /\ ret' = [ret EXCEPT ![w] = FALSE]
    /\ cw' = [cw EXCEPT ![w] = 0]
    /\ isw' = [isw EXCEPT ![w] = FALSE]
    /\ h' = [h EXCEPT !.open[w] = FALSE, !.tmo[w] = FALSE, !.woke[w] = FALSE,
                      !.acks[w] = 0, !.dec[w] = FALSE,
                      !.one = IF h.one = w THEN 0 ELSE h.one]
    /\ UNCHANGED << waiting, counter, is_waiting, is_closed, need_dest, sema, hs, lock >>
    /\ UNCHANGED << slocals, budgets >>

WaitIf(w) ==
    \/ WaitCall(w) \/ WaitRegister(w) \/ WaitSetWaiting(w)
    \/ WaitLock(w) \/ WaitPred(w) \/ WaitLoadWaiting(w)
    \/ WaitLoadClosed(w) \/ WaitNotWaiting(w) \/ WaitExchange(w)
    \/ WaitSemaDest(w) \/ WaitSema(w) \/ WaitLoopTest(w)
    \/ CleanupLoad(w) \/ CleanupCas(w) \/ CleanupClear(w)
    \/ WaitHandshake(w) \/ WaitMtxLock(w) \/ WaitReturn(w)

\* ---------------------------------------------------------------- signals
BlockedNow == {w \in Waiters : Blocked(w)}

\* The condition is open, the semaphore empty, at least one waiter is inside
\* sema_wait(tm), and every waiter inside wait_if is.
AllBlocked ==
    /\ ~is_closed /\ sema = 0
    /\ \E w \in Waiters : pc[w] = "w_sem"
    /\ \A w \in Waiters : pc[w] \in {"idle", "done", "w_sem"}

\* The condition is open, the semaphore empty, at least one waiter has released
\* mtx (line 49) and is in the blocking loop, at or on its way to
\* sema_wait(tm), and every waiter inside wait_if is.
AllReleased ==
    /\ ~is_closed /\ sema = 0
    /\ \E w \in Waiters : pc[w] \in {"w_ldw", "w_ldc", "w_xchg", "w_sem"}
    /\ \A w \in Waiters :
          pc[w] \in {"idle", "done", "w_ldw", "w_ldc", "w_xchg", "w_sem"}

\* The history of a signal call that begins now.
HCall ==
    [h EXCEPT !.blk = BlockedNow, !.all = AllBlocked, !.rel = AllReleased,
              !.how = "none", !.taken = 0,
              !.none = (waiting = 0 /\ ~is_waiting)]

\* The caller of a signal operation holds the caller's mtx over the call when
\* smtx says so.
SigEnter(op) ==
    /\ spc = "idle"
    /\ sop' = op
    /\ sret' = TRUE
    /\ UNCHANGED smtx
    /\ IF smtx THEN mtx = Free /\ mtx' = Sig ELSE UNCHANGED mtx

\* A test for zero waiters that never finds zero.
NoWaitersNever(n) == FALSE

\* lines 84, 101, 127: waiting_.load() == 0
NoWaiters(n) == n = 0

\* lines 84-86 and 101-103: if (waiting_.load() == 0) return true;
SigCall(op) ==
    /\ op \in {"notify", "broadcast"}
    /\ SigEnter(op)
    /\ IF NoWaiters(waiting)
         THEN /\ spc' = "s_ret"
              /\ h' = [HCall EXCEPT !.how = "fast"]
              /\ UNCHANGED scalls
         ELSE /\ scalls < MaxSigCalls
              /\ scalls' = scalls + 1
              /\ spc' = "s_lock"
              /\ h' = HCall
    /\ UNCHANGED << waiting, counter, is_waiting, is_closed, need_dest, sema, hs, lock >>
    /\ UNCHANGED << wlocals, wcalls, closes >>

\* line 122: need_dest_.store(true)
QuitCall ==
    /\ SigEnter("quit_waiting")
    /\ scalls < MaxSigCalls
    /\ scalls' = scalls + 1
    /\ need_dest' = TRUE
    /\ spc' = "q_xchg"
    /\ h' = [HCall EXCEPT !.quit = TRUE,
                          !.one = IF AllBlocked /\ Cardinality(BlockedNow) = 1
                                    THEN CHOOSE w \in BlockedNow : TRUE ELSE 0]
    /\ UNCHANGED << waiting, counter, is_waiting, is_closed, sema, hs, lock >>
    /\ UNCHANGED << wlocals, wcalls, closes >>

\* lines 123-125: if (!is_waiting_.exchange(false)) return true;
QuitExchange ==
    /\ spc = "q_xchg"
    /\ is_waiting' = FALSE
    /\ IF is_waiting
         THEN /\ spc' = "q_load"
              /\ UNCHANGED h
         ELSE /\ spc' = "s_ret"
              /\ h' = [h EXCEPT !.how = "fast"]
    /\ UNCHANGED << waiting, counter, is_closed, need_dest, sema, hs, lock, mtx >>
    /\ UNCHANGED << wlocals, sop, sret, smtx, budgets >>

\* lines 127-129: if (waiting_.load() == 0) return true;
QuitLoad ==
    /\ spc = "q_load"
    /\ IF NoWaiters(waiting)
         THEN /\ spc' = "s_ret"
              /\ h' = [h EXCEPT !.how = "fast"]
         ELSE /\ spc' = "s_lock"
              /\ UNCHANGED h
    /\ UNCHANGED << shared, wlocals, sop, sret, smtx, budgets >>

\* lines 76-79: while (ctrl.handshake_wait(0)) ;  what is left in the
\* handshake semaphore when the loop ends
ClearHandshake(n) == 0

\* lines 88-89, 105-106, 131-132: auto guard = ctrl.get_lock();
\* clear_handshake(ctrl);
SigLock ==
    /\ spc = "s_lock"
    /\ lock = Free
    /\ lock' = GetLock(Sig)
    /\ hs' = ClearHandshake(hs)
    /\ spc' = "s_test"
    /\ UNCHANGED << waiting, counter, is_waiting, is_closed, need_dest, sema, mtx >>
    /\ UNCHANGED << wlocals, sop, sret, smtx, budgets, h >>

\* lines 91, 108, 134: the number of tokens sema_post releases
PostCount(op, c) == IF op = "notify" THEN 1 ELSE c

\* lines 90-92, 107-111, 133-135: if (counter_ > 0) { sema_post(..);
\* counter_ -= 1; ... } else return ret;
SigPost ==
    /\ spc = "s_test"
    /\ IF counter > 0
         THEN /\ sema' = sema + PostCount(sop, counter)
              /\ counter' = counter - 1
              /\ spc' = "s_hs"
              /\ h' = [h EXCEPT !.how = "post", !.posters = h.posters \cup {sop}]
         ELSE /\ spc' = "s_ret"
              /\ h' = [h EXCEPT !.how = "zero"]
              /\ UNCHANGED << sema, counter >>
    /\ UNCHANGED << waiting, is_waiting, is_closed, need_dest, hs, lock, mtx >>
    /\ UNCHANGED << wlocals, sop, sret, smtx, budgets >>

\* lines 93, 112-113, 136: ret = ret && handshake_wait(..): an acknowledgment,
\* or the timeout, and no call at all once ret is false; broadcast goes round
\* while counter_ > 0.
SigHandshake ==
    /\ spc = "s_hs"
    /\ \/ /\ sret /\ hs > 0
          /\ hs' = hs - 1
          /\ UNCHANGED sret
       \/ /\ sret /\ hs = 0
          /\ sret' = FALSE
          /\ UNCHANGED hs
       \/ /\ ~sret
          /\ UNCHANGED << hs, sret >>
    /\ IF sop = "broadcast"
         THEN IF counter > 0
                THEN counter' = counter - 1 /\ spc' = "s_hs"
                ELSE counter' = counter /\ spc' = "b_store"
         ELSE counter' = counter /\ spc' = "s_ret"
    /\ UNCHANGED << waiting, is_waiting, is_closed, need_dest, sema, lock, mtx >>
    /\ UNCHANGED << wlocals, sop, smtx, budgets, h >>

\* line 114: waiting_.store(0)
BroadcastReset ==
    /\ spc = "b_store"
    /\ waiting' = 0
    /\ spc' = "s_ret"
    /\ UNCHANGED << counter, is_waiting, is_closed, need_dest, sema, hs, lock, mtx >>
    /\ UNCHANGED << wlocals, sop, sret, smtx, budgets, h >>

\* return ret: the scoped lock, if taken, is released; so is the caller's mtx.
SigReturn ==
    /\ spc = "s_ret"
    /\ lock' = IF lock = Sig THEN Free ELSE lock
    /\ mtx' = IF smtx THEN Free ELSE mtx
    /\ spc' = "idle"
    /\ sop' = "none"
    /\ sret' = TRUE
    /\ h' = [h EXCEPT !.blk = {}, !.all = FALSE, !.rel = FALSE,
                      !.how = "none", !.taken = 0, !.none = FALSE]
    /\ UNCHANGED << waiting, counter, is_waiting, is_closed, need_dest, sema, hs >>
    /\ UNCHANGED << wlocals, smtx, budgets >>

Signal ==
    \/ \E op \in {"notify", "broadcast"} : SigCall(op)
    \/ QuitCall \/ QuitExchange \/ QuitLoad
    \/ SigLock \/ SigPost \/ SigHandshake
    \/ BroadcastReset \/ SigReturn

\* ---------------------------------------------------------------- Spec
Next ==
    \/ Open
    \/ Close
    \/ \E w \in Waiters : WaitIf(w)
    \/ Signal

Spec == Init /\ [][Next]_vars

\* The signalling thread calls notify, broadcast and quit_waiting from inside
\* the critical section of the caller's mtx.
InitHeld ==
    /\ waiting = 0 /\ counter = 0
    /\ is_waiting = FALSE /\ is_closed = TRUE /\ need_dest = FALSE
    /\ sema = 0 /\ hs = 0 /\ lock = Free /\ mtx = Free
    /\ pc = [w \in Waiters |-> "idle"]
    /\ pred = [w \in Waiters |-> TRUE]
    /\ tm = [w \in Waiters |-> "inf"]
    /\ ret = [w \in Waiters |-> FALSE]
    /\ cw = [w \in Waiters |-> 0]
    /\ isw = [w \in Waiters |-> FALSE]
    /\ spc = "idle" /\ sop = "none" /\ sret = TRUE /\ smtx = TRUE
    /\ wcalls = 0 /\ scalls = 0 /\ closes = 0
    /\ h = HInit

SpecHeld == InitHeld /\ [][Next]_vars

\* One waiter A and one notifier B on an open condition: A calls wait_if with
\* a true predicate and an unbounded timeout, B calls notify.
A == 1

InitPair ==
    /\ waiting = 0 /\ counter = 0
    /\ is_waiting = FALSE /\ is_closed = FALSE /\ need_dest = FALSE
    /\ sema = 0 /\ hs = 0 /\ lock = Free /\ mtx = Free
    /\ pc = [w \in Waiters |-> "idle"]
    /\ pred = [w \in Waiters |-> TRUE]
    /\ tm = [w \in Waiters |-> "inf"]
    /\ ret = [w \in Waiters |-> FALSE]
    /\ cw = [w \in Waiters |-> 0]
    /\ isw = [w \in Waiters |-> FALSE]
    /\ spc = "idle" /\ sop = "none" /\ sret = TRUE /\ smtx = FALSE
    /\ wcalls = 0 /\ scalls = 0 /\ closes = 0
    /\ h = HInit

\* The steps A and B can take there: need_dest_ and is_closed_ stay false and
\* nobody else clears is_waiting_, so lines 56-58 and 62-63 are not reached.
NextPair ==
    \/ WaitCallWith(A, {TRUE}, {"inf"})
    \/ WaitRegister(A) \/ WaitSetWaiting(A) \/ WaitLock(A) \/ WaitPred(A)
    \/ WaitLoadWaiting(A) \/ WaitLoadClosed(A) \/ WaitExchange(A)
    \/ WaitSema(A) \/ WaitLoopTest(A)
    \/ CleanupLoad(A) \/ CleanupCas(A) \/ CleanupClear(A)
    \/ WaitHandshake(A) \/ WaitMtxLock(A) \/ WaitReturn(A)
    \/ SigCall("notify") \/ SigLock \/ SigPost \/ SigHandshake \/ SigReturn

SpecPair == InitPair /\ [][NextPair]_vars

\* ---------------------------------------------------------------- claims
Quiescent == spc = "idle" /\ \A w \in Waiters : pc[w] \in {"idle", "done"}

\* C1: when notify is called while every waiter inside wait_if is blocked in
\* sema_wait on an open condition with an empty semaphore, the call has, when
\* it returns, released exactly one token: one waiter took it or it is there
\* for a blocked waiter to take.
C1_NotifyWakesOne ==
    (spc = "s_ret" /\ sop = "notify" /\ h.all)
        => h.taken + sema = 1

\* C2: when broadcast is called while every waiter inside wait_if is blocked
\* in sema_wait on an open condition, then at its return every one of those
\* waiters has left its sema_wait or has a token to leave it with.
C2_BroadcastWakesAll ==
    (spc = "s_ret" /\ sop = "broadcast" /\ h.all)
        => Cardinality(h.blk) <= sema

\* C3: when quit_waiting returns, every waiter that was blocked in
\* sema_wait(tm) with an unbounded tm when it was called has left that
\* sema_wait or has a token to leave it with.
C3_QuitReleasesAll ==
    (spc = "s_ret" /\ sop = "quit_waiting")
        => Cardinality({w \in h.blk : pc[w] = "w_sem" /\ tm[w] = "inf"}) <= sema

\* C4: a wait_if call whose sema_wait took a token, when only quit_waiting
\* has ever posted tokens, returns false.
C4_QuitWokenReturnsFalse ==
    \A w \in Waiters :
        (pc[w] = "done" /\ h.woke[w] /\ h.posters = {"quit_waiting"}) => ret[w] = FALSE

\* C5: the waiter that was the only thread inside wait_if, and blocked, when
\* quit_waiting was called is released by the time quit_waiting returns,
\* returns false, and leaves waiting = 0 when nobody else is inside wait_if.
C5_QuitOneWaiter ==
    /\ (spc = "s_ret" /\ sop = "quit_waiting" /\ h.one \in h.blk
           /\ pc[h.one] = "w_sem" /\ tm[h.one] = "inf") => sema >= 1
    /\ \A w \in Waiters :
          (h.one = w /\ pc[w] = "done")
              => /\ ret[w] = FALSE
                 /\ (\A v \in Waiters : ~InCall(v)) => waiting = 0

\* C6: a wait_if call that finds is_closed returns false in that step, with
\* waiting, counter, is_waiting, need_dest, both semaphores and the shared
\* lock untouched and mtx still with the caller.
C6_ClosedReturnsAtOnce ==
    [][\A w \in Waiters :
          (pc[w] = "idle" /\ pc'[w] # "idle" /\ is_closed)
              => /\ pc'[w] = "done" /\ ret'[w] = FALSE
                 /\ UNCHANGED << waiting, counter, is_waiting, is_closed, need_dest,
                                 sema, hs, lock >>
                 /\ mtx' = w]_vars

C6_Witness ==
    \E w \in Waiters : pc[w] = "done" /\ is_closed /\ wcalls = 0 /\ ret[w] = FALSE

\* C7: once every wait_if call has returned and no signal call is in
\* progress, waiting = 0.
C7_RoundTrip == Quiescent => waiting = 0

C7_Witness ==
    /\ Quiescent /\ wcalls = MaxWaitCalls /\ scalls = MaxSigCalls
    /\ \E w \in Waiters : pc[w] = "done" /\ h.woke[w]
    /\ \E w \in Waiters : pc[w] = "done" /\ h.tmo[w]

\* C8: with one waiter A and one notifier B: a call of A returns true with mtx
\* held by A; a notify call of B made after A released mtx inside wait_if, and
\* before A left the blocking loop, has, when it returns, posted exactly one
\* token, and when it returns true A has taken that token and B has consumed
\* the one acknowledgment A posted for it.
C8_PairRoundTrip ==
    /\ pc[A] = "done" => (ret[A] = TRUE /\ mtx = A)
    /\ pc[A] \notin {"w_ndclr", "w_semd"}
    /\ (spc = "s_ret" /\ h.rel)
          => /\ h.how = "post"
             /\ h.taken + sema = 1
             /\ sret => (h.taken = 1 /\ hs = 0 /\ ~Blocked(A))

C8_Witness ==
    /\ spc = "s_ret" /\ h.rel /\ sret /\ h.how = "post"
    /\ pc[A] = "done" /\ ret[A] = TRUE /\ mtx = A

\* C9: a notify call that returns without posting a token (waiting_ = 0 at
\* its first line, or counter_ = 0 under the lock) was not called while a
\* waiter was blocked in sema_wait that is blocked there still.
C9_NotifyPostsWhenBlocked ==
    (spc = "s_ret" /\ sop = "notify" /\ h.how \in {"fast", "zero"}) => h.blk = {}

\* C10: a wait_if call with a true predicate, on a condition that has been
\* open since before the call, with quit_waiting never called and no timeout
\* of its own sema_wait, returns true.
C10_FalseOnlyForAReason ==
    \A w \in Waiters :
        (pc[w] = "done" /\ h.open[w] /\ pred[w] /\ closes = 0 /\ ~h.quit /\ ~h.tmo[w])
            => ret[w] = TRUE

\* C11: a notify, broadcast or quit_waiting call made when waiting = 0 and
\* is_waiting is false, during which no waiter registers, goes from the call
\* straight to its return (quit_waiting by way of its exchange of is_waiting),
\* returns true, and none of its steps changes waiting, counter, a semaphore
\* or the holder of the shared lock.
C11_NoWaitersNoOp ==
    [][(h'.none /\ spc' # spc)
          => /\ spc' \in {"q_xchg", "s_ret"}
             /\ sret' = TRUE
             /\ spc' = "s_ret" => h'.how = "fast"
             /\ UNCHANGED << waiting, counter, sema, hs, lock >>]_vars

C11_Witness ==
    /\ spc = "s_ret" /\ sop = "quit_waiting" /\ h.none /\ sret
    /\ wcalls > 0 /\ ~is_closed

\* C12: a wait_if call that has returned has the caller's mtx with the
\* caller, whatever the path, and a thread inside sema_wait does not hold it.
C12_MtxHandoff ==
    \A w \in Waiters :
        /\ pc[w] = "done" => mtx = w
        /\ pc[w] \in {"w_sem", "w_semd"} => mtx # w

C12_Witness ==
    \E w \in Waiters : pc[w] = "done" /\ h.woke[w] /\ mtx = w /\ h.acks[w] = 1

\* The threads that have executed the increment of line 34 and whose cleanup
\* guard has not yet got to its decrement.
Registered ==
    {w \in Waiters : pc[w] \in {"w_setw", "w_lock", "w_pred", "w_ldw", "w_ldc",
                                 "w_ndclr", "w_xchg", "w_semd", "w_sem", "w_ndld",
                                 "c_load", "c_cas"}}

\* C13: waiting is the number of registered threads.
C13_WaitingCountsRegistered == waiting = Cardinality(Registered)

\* C14: as long as quit_waiting has not been called, is_waiting is true
\* whenever a thread is past its store of line 35 and has not begun its cleanup.
C14_IsWaitingWhileInside ==
    (~h.quit /\ \E w \in Waiters :
                   pc[w] \in {"w_lock", "w_pred", "w_ldw", "w_ldc", "w_ndclr",
                              "w_xchg", "w_semd", "w_sem", "w_ndld"})
        => is_waiting

\* C15: a notify call that posted a token and returns true has seen a waiter
\* take a token since the call began.
C15_AckFromWokenWaiter ==
    (spc = "s_ret" /\ sop = "notify" /\ h.how = "post" /\ sret) => h.taken >= 1

\* The threads inside a section of code that the shared lock's guard covers.
InLocked ==
    {w \in Waiters : pc[w] = "w_pred"}
        \cup (IF spc \in {"s_test", "s_hs", "b_store"} THEN {Sig} ELSE {})

\* C16: at most one thread is inside a locked section, it is the holder of
\* the shared lock, and a step that changes counter is a step of the thread
\* that holds the shared lock.
C16_LockExcludes ==
    [][/\ Cardinality(InLocked) <= 1
       /\ \A t \in InLocked : lock = t
       /\ counter' # counter
             => \/ lock = Sig /\ pc' = pc
                \/ lock \in Waiters /\ pc'[lock] # pc[lock] /\ spc' = spc]_vars

C16_Witness ==
    /\ spc = "s_hs" /\ lock = Sig /\ h.how = "post"
    /\ \E w \in Waiters : pc[w] = "w_lock"

\* C17: a wait_if call that has returned has posted one acknowledgment when
\* it passed the predicate check on an open condition and none otherwise, and a
\* call that has posted its acknowledgment has its cleanup behind it.
C17_OneAckPerWait ==
    \A w \in Waiters :
        /\ pc[w] = "done" => h.acks[w] = (IF h.open[w] /\ pred[w] THEN 1 ELSE 0)
        /\ h.acks[w] <= 1
        /\ h.acks[w] = 1 => pc[w] \in {"w_mlock", "done"}

C17_Witness ==
    /\ \E w \in Waiters : pc[w] = "w_mlock" /\ h.acks[w] = 1 /\ h.tmo[w] /\ ~ret[w]
    /\ \E w \in Waiters : pc[w] = "done" /\ h.acks[w] = 0 /\ h.open[w] /\ ~pred[w]

\* C18: a wait_if call on an open condition whose predicate was false has,
\* when it returns, returned true, never been inside sema_wait, seen its
\* cleanup decrement waiting, posted no acknowledgment and kept mtx throughout.
C18_PredFalse ==
    \A w \in Waiters :
        /\ (InCall(w) /\ pc[w] # "w_inc" /\ ~pred[w])
              => mtx = w /\ pc[w] \in {"w_setw", "w_lock", "w_pred", "c_load", "c_cas", "c_clr"}
        /\ (pc[w] = "done" /\ h.open[w] /\ ~pred[w])
              => /\ ret[w] = TRUE /\ mtx = w
                 /\ ~h.woke[w] /\ ~h.tmo[w]
                 /\ h.acks[w] = 0
                 /\ h.dec[w]

\* C19: waiting never goes below zero.
C19_WaitingNotNegative == waiting >= 0

C19_Witness ==
    \E w \in Waiters : pc[w] = "c_clr" /\ ~h.dec[w] /\ waiting = 0 /\ h.open[w]

\* C20: while the signalling thread, holding the caller's mtx and the shared
\* lock, waits for a handshake, a waiter that has taken a token and has not
\* yet posted its acknowledgment can take its next step, unless it is inside
\* sema_wait again with no token there.
C20_AckNeedsNoLock ==
    (spc = "s_hs" /\ mtx = Sig /\ lock = Sig)
        => \A w \in Waiters :
              (h.woke[w] /\ h.acks[w] = 0 /\ ~Blocked(w)) => ENABLED WaitIf(w)

C20_Witness ==
    /\ spc = "s_hs" /\ mtx = Sig /\ lock = Sig /\ sop = "broadcast"
    /\ \E w \in Waiters : h.woke[w] /\ pc[w] = "w_hs"

====
